---- MODULE Spec2Model ----
(***************************************************************************)
(* Model of the tasklib queue runtime: the tasks table, submit_task, the   *)
(* TaskWorker poll loop, the claim transaction of _try_acquire_task, and   *)
(* the outcome writes _mark_completed and _handle_failure.                 *)
(*                                                                         *)
(* Time is a discrete clock `now` (one unit stands for one second of       *)
(* datetime.utcnow()).  A nullable column is <<>> (NULL) or <<v>>.         *)
(* The claim transaction is split at its row lock: the SELECT ... FOR      *)
(* UPDATE either locks a row, blocks on a row another open claim           *)
(* transaction has locked, or finds nothing; the UPDATE and COMMIT are a   *)
(* second step.  This is PostgreSQL's READ COMMITTED behaviour for the     *)
(* statement built by .with_for_update() (no skip_locked, no nowait).      *)
(*                                                                         *)
(* Spec has two workers and a handler of which nothing is assumed;         *)
(* FairSpec and HandlerSpec have one worker that keeps polling, the latter *)
(* with the handlers of the tests; SubmitSpec is submit_task alone, with   *)
(* registered and unregistered names and valid and invalid arguments;      *)
(* RegistrySpec is the @task decorator with submissions; ShutdownSpec is   *)
(* one worker that is shut down; DashboardSpec adds the write endpoints of *)
(* the dashboard to the polling worker, the cancel endpoint split between  *)
(* its SELECT and its UPDATE.  ForeignSpec has rows of a name the worker    *)
(* has not registered, FaultSpec database errors in the claim transaction, *)
(* BackoffSpec a handler that fails up to four times, ReturnSpec a handler *)
(* that returns a value, the empty string or None.                         *)
(***************************************************************************)
EXTENDS Integers, Sequences, FiniteSets, TLC

\* ---------------------------------------------------------------- bounds
MaxTasks == 2
MaxTime == 2
\* the count of a handler's invocations stops at this value
MaxInvocations == 3

\* ------------------------------------------------------------ parameters
Workers == {"w1", "w2"}
TaskIds == 1..MaxTasks
NULL == <<>>
Some(v) == <<v>>
Val(o) == o[1]

\* Config fields (config.py).  max_retries and lock_timeout_seconds are
\* scaled to the model's clock; the backoff has its defaults, since the retry
\* time is only recorded and no step waits for it.
max_retries == 1
base_retry_delay_seconds == 5
retry_backoff_multiplier == 2
\* the first delays of the default backoff: 5s -> 10s -> 20s
DefaultDelays == <<5, 10, 20>>
lock_timeout_seconds == 1
default_task_timeout_seconds == NULL
\* TaskWorker(config, concurrency=...)
concurrency == [w \in Workers |-> IF w = "w1" THEN 2 ELSE 1]

\* Python/JSON values are tagged, <<"int", n>> or <<"str", s>>; a dict is
\* the set of its <<key, value>> items
IntV(n) == <<"int", n>>
StrV(s) == <<"str", s>>
EmptyDict == {}
Keys(d) == {item[1] : item \in d}
Lookup(d, k) == (CHOOSE item \in d : item[1] = k)[2]

\* a field of the params model that the decorator derives from the
\* handler's signature: (annotation, ...) or (annotation, default)
Required(annotation) == [annotation |-> annotation, default |-> NULL]
WithDefault(annotation, v) == [annotation |-> annotation, default |-> Some(v)]

\* The registrations made when the handlers' modules are imported: name ->
\* metadata given to @task(...) and the fields of the params model.  "job" is a
\* handler without parameters about whose behaviour nothing is assumed; the
\* others are the handlers the repository's tests register.
task_registry ==
    [ job |->
        [max_retries |-> NULL, timeout_seconds |-> NULL, params |-> EmptyDict],
      add |->
        [max_retries |-> NULL, timeout_seconds |-> NULL,
         params |-> {<<"a", Required("int")>>, <<"b", Required("int")>>}],
      typed_task |->
        [max_retries |-> NULL, timeout_seconds |-> NULL,
         params |-> {<<"x", Required("int")>>, <<"name", Required("str")>>}],
      optional_param_task |->
        [max_retries |-> NULL, timeout_seconds |-> NULL,
         params |-> {<<"x", Required("int")>>, <<"y", WithDefault("int", IntV(10))>>}],
      custom_task |->
        [max_retries |-> Some(5), timeout_seconds |-> Some(30), params |-> EmptyDict],
      always_fails |->
        [max_retries |-> Some(1), timeout_seconds |-> NULL, params |-> EmptyDict],
      flaky_task |->
        [max_retries |-> Some(2), timeout_seconds |-> NULL, params |-> EmptyDict],
      slow_task |->
        [max_retries |-> NULL, timeout_seconds |-> Some(1), params |-> EmptyDict] ]

\* the submissions the model enumerates:
\* <<delay_seconds, max_retries override, priority>>
SubmitInputs ==
    { <<0, NULL, 0>>, <<0, Some(-1), 1>>, <<1, Some(2), 1>> }

\* what one execution of a handler can do
Outcomes == {"return_value", "return_none", "raise"}
\* how one await of the handler in _execute_task can end
Results == Outcomes \cup {"timeout"}

\* what a handler can return or do, a return value that is falsy in Python
\* (the empty string) included
Returns == Outcomes \cup {"return_empty"}

\* how one attempt of _execute_task can end: as above, or without a call
\* of the handler because the row's name is not registered in the worker
Attempts == Results \cup {"not_registered"}

\* the names bound in _task_registry of a worker process, which imports
\* the modules it is started with (--task-module): the parameterless
\* handler and the handlers of the tests that run a worker
worker_task_registry == {"job", "add", "always_fails", "flaky_task", "slow_task"}

\* slow_task: time.sleep(5)
SlowSeconds == 5

\* the calls of submit_task enumerated where only the submit side is
\* looked at: <<name, kwargs, delay_seconds, max_retries, timeout_seconds,
\* priority>>
SubmitArgs ==
    { <<"job", EmptyDict>>,
      <<"unregistered", EmptyDict>>,
      <<"add", {<<"a", IntV(5)>>, <<"b", IntV(3)>>}>>,
      <<"add", {<<"a", IntV(5)>>}>>,
      <<"add", {<<"a", StrV("not an int")>>, <<"b", IntV(3)>>}>>,
      <<"add", {<<"a", StrV("5")>>, <<"b", IntV(3)>>, <<"c", IntV(1)>>}>>,
      <<"typed_task", {<<"x", IntV(5)>>, <<"name", StrV("test")>>}>>,
      <<"typed_task", {<<"x", IntV(5)>>, <<"name", IntV(3)>>}>>,
      <<"optional_param_task", {<<"x", IntV(5)>>}>>,
      <<"optional_param_task", {<<"x", IntV(5)>>, <<"y", IntV(7)>>}>>,
      <<"custom_task", EmptyDict>> }

SubmitOptions ==
    { <<0, NULL, NULL, 0>>, <<1, Some(0), NULL, 0>>, <<0, NULL, Some(0), 1>>,
      <<1, Some(3), Some(2), 0>> }

SubmitCalls ==
    { <<a[1], a[2], o[1], o[2], o[3], o[4]>> : a \in SubmitArgs, o \in SubmitOptions }

\* the submissions of the tests that run a worker: add, always_fails,
\* flaky_task, slow_task, and slow_task with its timeout overridden
TestSubmissions ==
    { <<"add", {<<"a", IntV(5)>>, <<"b", IntV(3)>>}, 0, NULL, NULL, 0>>,
      <<"always_fails", EmptyDict, 0, NULL, NULL, 0>>,
      <<"flaky_task", EmptyDict, 0, NULL, NULL, 0>>,
      <<"slow_task", EmptyDict, 0, NULL, NULL, 0>>,
      <<"slow_task", EmptyDict, 0, NULL, Some(0), 0>> }

\* submissions by a process that has registered custom_task, which the
\* worker has not, next to submissions of always_fails and of slow_task
ForeignSubmissions ==
    { <<"custom_task", EmptyDict, 0, Some(1), NULL, 0>>,
      <<"custom_task", EmptyDict, 0, Some(0), NULL, 1>>,
      <<"always_fails", EmptyDict, 0, NULL, NULL, 0>>,
      <<"slow_task", EmptyDict, 0, Some(0), NULL, 0>> }

\* submissions of always_fails with up to three retries
BackoffSubmissions ==
    { <<"always_fails", EmptyDict, 0, Some(3), NULL, 0>>,
      <<"always_fails", EmptyDict, 0, NULL, NULL, 1>> }

\* the functions the model decorates with @task after the import, as
\* <<function, max_retries, timeout_seconds>>: two functions named
\* duplicate, my_task(x: int) with and without options, and another function
\* named add
Decorations ==
    { <<[name |-> "duplicate", func |-> "first", params |-> EmptyDict], NULL, NULL>>,
      <<[name |-> "duplicate", func |-> "second", params |-> EmptyDict], NULL, NULL>>,
      <<[name |-> "my_task", func |-> "my_task",
         params |-> {<<"x", Required("int")>>}], NULL, NULL>>,
      <<[name |-> "my_task", func |-> "my_task",
         params |-> {<<"x", Required("int")>>}], Some(5), Some(30)>>,
      <<[name |-> "add", func |-> "other", params |-> EmptyDict], Some(0), NULL>> }

\* the submissions of the functions decorated after the import
DecoratedSubmissions ==
    { <<"duplicate", EmptyDict, 0, NULL, NULL, 0>>,
      <<"my_task", {<<"x", IntV(5)>>}, 0, NULL, NULL, 1>>,
      <<"my_task", EmptyDict, 0, Some(2), NULL, 0>> }

VARIABLES
    now,            \* datetime.utcnow()
    rows,           \* the tasks table: id -> row, NULL where no row exists
    wk,             \* per worker: position in run()/_try_acquire_task
    running_tasks,  \* per worker: in-flight executions per task id
    call,           \* the last call of submit_task or @task and how it ended
    call_count,     \* flaky_task's nonlocal counter of its invocations
    registry,       \* _task_registry: name -> (function, metadata)
    invocations,    \* per task id: how often a worker has invoked its handler
                    \* (history; kept for the handlers of the tests only)
    executor        \* per worker: the task ids whose handler still runs in the
                    \* thread pool after wait_for has given up on it

vars ==
    <<now, rows, wk, running_tasks, call, call_count, registry, invocations, executor>>

\* pc: where the worker's loop thread is; budget: claims left in this poll
\* round; now, cands, target: the open claim transaction's statement time,
\* the rows of its scan not yet passed, the row it waits on or has locked;
\* waited: the open transaction has blocked on a row lock (history only);
\* gathered: the number of asyncio tasks shutdown() was called with in
\* _running_tasks, the ones its gather awaits.
\* pc is "stopping" from the call of shutdown() until its gather returns
\* and "stopped" once run() has returned.
Idle ==
    [pc |-> "sleep", budget |-> 0, now |-> 0, cands |-> <<>>, target |-> 0,
     waited |-> FALSE, gathered |-> 0]

\* the worker process is running
alive(w) == wk[w].pc # "dead"

\* the worker, if any, whose open claim transaction holds the row lock of t
LockHolders(t) == {w \in Workers : wk[w].pc = "locked" /\ wk[w].target = t}

Exists(t) == rows[t] # NULL
Row(t) == Val(rows[t])

\* ------------------------------------------------------- pure predicates
is_terminal(task) ==
    IF task.state = "completed" THEN TRUE
    ELSE task.state = "failed" /\ task.retry_count >= task.max_retries

\* mutants of the WHERE clause: the state filter also lets running rows
\* through / also lets completed rows through
ClaimWhereRunning(task, nowv) ==
    /\ task.state \in {"pending", "failed", "running"}
    /\ task.scheduled_at <= nowv
    /\ (task.locked_until = NULL \/ Val(task.locked_until) < nowv)

ClaimWhereCompleted(task, nowv) ==
    /\ task.state \in {"pending", "failed", "completed"}
    /\ task.scheduled_at <= nowv
    /\ (task.locked_until = NULL \/ Val(task.locked_until) < nowv)

\* mutant of the WHERE clause: no condition on scheduled_at
ClaimWhereNotDue(task, nowv) ==
    /\ task.state \in {"pending", "failed"}
    /\ (task.locked_until = NULL \/ Val(task.locked_until) < nowv)

\* WHERE clause of the claim statement
ClaimWhere(task, nowv) ==
    /\ task.state \in {"pending", "failed"}
    /\ task.scheduled_at <= nowv
    /\ (task.locked_until = NULL \/ Val(task.locked_until) < nowv)

\* mutant of the ORDER BY: priority ascending
OrderedBeforeAsc(a, b) ==
    \/ a.priority < b.priority
    \/ a.priority = b.priority /\ a.created_at <= b.created_at

\* ORDER BY priority DESC, created_at ASC
OrderedBefore(a, b) ==
    \/ a.priority > b.priority
    \/ a.priority = b.priority /\ a.created_at <= b.created_at

Perms(S) ==
    {s \in [1..Cardinality(S) -> S] : \A i, j \in 1..Cardinality(S) : i # j => s[i] # s[j]}

\* the result sets the statement can produce (ties are in arbitrary order)
Scan(nowv) ==
    LET E == {t \in TaskIds : Exists(t) /\ ClaimWhere(Row(t), nowv)}
    IN {s \in Perms(E) : \A i, j \in 1..Cardinality(E) :
            i < j => OrderedBefore(Row(s[i]), Row(s[j]))}

\* mutant of LockRows: a row that fails the re-check ends the statement
\* with no row instead of going on to the next row of the scan
LockRowsNoRetry(w, cands, nowv) ==
    IF cands = <<>> THEN [pc |-> "none", target |-> 0, cands |-> <<>>]
    ELSE LET c == Head(cands) IN
         IF LockHolders(c) \ {w} # {}
            THEN [pc |-> "waiting", target |-> c, cands |-> cands]
         ELSE IF ClaimWhere(Row(c), nowv)
            THEN [pc |-> "locked", target |-> c, cands |-> <<>>]
         ELSE [pc |-> "none", target |-> 0, cands |-> <<>>]

RECURSIVE LockRows(_, _, _)
\* LIMIT 1 over row locking: lock the first row of the scan that still
\* satisfies the WHERE clause; block on a row locked by another transaction
LockRows(w, cands, nowv) ==
    IF cands = <<>> THEN [pc |-> "none", target |-> 0, cands |-> <<>>]
    ELSE LET c == Head(cands) IN
         IF LockHolders(c) \ {w} # {}
            THEN [pc |-> "waiting", target |-> c, cands |-> cands]
         ELSE IF ClaimWhere(Row(c), nowv)
            THEN [pc |-> "locked", target |-> c, cands |-> <<>>]
         ELSE LockRows(w, Tail(cands), nowv)

RECURSIVE Pow(_, _)
Pow(b, e) == IF e = 0 THEN 1 ELSE b * Pow(b, e - 1)

InFlight(w) ==
    LET RECURSIVE Sum(_)
        Sum(S) == IF S = {} THEN 0
                  ELSE LET t == CHOOSE x \in S : TRUE
                       IN running_tasks[w][t] + Sum(S \ {t})
    IN Sum(TaskIds)

\* ----------------------------------------------------------------- Init
Init ==
    /\ now = 0
    /\ rows = [t \in TaskIds |-> NULL]
    /\ wk = [w \in Workers |-> Idle]
    /\ running_tasks = [w \in Workers |-> [t \in TaskIds |-> 0]]
    /\ call = NULL
    /\ call_count = 0
    /\ registry = [name \in DOMAIN task_registry |->
                      [func |-> name] @@ task_registry[name]]
    /\ invocations = [t \in TaskIds |-> 0]
    /\ executor = [w \in Workers |-> {}]

\* -------------------------------------------------------------- actions
Tick ==
    /\ now < MaxTime
    /\ now' = now + 1
    /\ UNCHANGED <<rows, wk, running_tasks, call, call_count, registry, invocations, executor>>

\* pydantic's conversion of one value for an annotated field (lax mode):
\* an int field takes an int or a numeric string, a str field only a str
coerce(v, annotation) ==
    CASE annotation = "int" /\ v[1] = "int" -> Some(v)
      [] annotation = "int" /\ v[1] = "str" ->
            IF v[2] = "5" THEN Some(IntV(5)) ELSE NULL
      [] annotation = "str" /\ v[1] = "str" -> Some(v)
      [] OTHER -> NULL

\* mutant of params_model: a field that is not given is left out instead of
\* taking its default
params_modelNoDefaults(name, kwargs) ==
    LET params == registry[name].params
        given == Keys(params) \cap Keys(kwargs)
        field(k) == IF k \in Keys(kwargs)
                    THEN coerce(Lookup(kwargs, k), Lookup(params, k).annotation)
                    ELSE Lookup(params, k).default
    IN IF \E k \in Keys(params) : field(k) = NULL
       THEN NULL
       ELSE Some({<<k, Val(field(k))>> : k \in given})

\* params_model(**kwargs).model_dump(): NULL stands for ValidationError.
\* A field that is given is converted, one that is not given takes its
\* default, and is missing if it has none; keys that are no field are
\* dropped.
params_model(name, kwargs) ==
    LET params == registry[name].params
        field(k) == IF k \in Keys(kwargs)
                    THEN coerce(Lookup(kwargs, k), Lookup(params, k).annotation)
                    ELSE Lookup(params, k).default
    IN IF \E k \in Keys(params) : field(k) = NULL
       THEN NULL
       ELSE Some({<<k, Val(field(k))>> : k \in Keys(params)})

\* mutant of resolve: the registration takes precedence over the override
resolveRegistrationFirst(override, registered, default) ==
    IF registered # NULL THEN registered
    ELSE IF override # NULL THEN override
    ELSE default

\* x if x is not None else metadata[...], then the config default
resolve(override, registered, default) ==
    IF override # NULL THEN override
    ELSE IF registered # NULL THEN registered
    ELSE default

\* mutant of new_task: the row is scheduled for the time of the submit
new_taskNoDelay(id, name, validated_kwargs, scheduled_at, final_max_retries, final_timeout, priority) ==
    [ id |-> id,
      name |-> name,
      args |-> EmptyDict,
      kwargs |-> validated_kwargs,
      state |-> "pending",
      result |-> NULL,
      error |-> NULL,
      retry_count |-> 0,
      max_retries |-> final_max_retries,
      next_retry_at |-> NULL,
      scheduled_at |-> now,
      started_at |-> NULL,
      completed_at |-> NULL,
      created_at |-> now,
      worker_id |-> NULL,
      locked_until |-> NULL,
      timeout_seconds |-> final_timeout,
      priority |-> priority,
      tags |-> EmptyDict ]

\* Task(name=..., kwargs=..., ...) with the defaults of the model's fields
new_task(id, name, validated_kwargs, scheduled_at, final_max_retries, final_timeout, priority) ==
    [ id |-> id,
      name |-> name,
      args |-> EmptyDict,
      kwargs |-> validated_kwargs,
      state |-> "pending",
      result |-> NULL,
      error |-> NULL,
      retry_count |-> 0,
      max_retries |-> final_max_retries,
      next_retry_at |-> NULL,
      scheduled_at |-> scheduled_at,
      started_at |-> NULL,
      completed_at |-> NULL,
      created_at |-> now,
      worker_id |-> NULL,
      locked_until |-> NULL,
      timeout_seconds |-> final_timeout,
      priority |-> priority,
      tags |-> EmptyDict ]

\* the record kept of a call of submit_task: its arguments and how it
\* ended, <<"return", id>> or <<"raise", exception>>
Called(name, kwargs, delay_seconds, max_retries_arg, timeout_arg, priority, outcome) ==
    Some([ name |-> name, kwargs |-> kwargs, delay_seconds |-> delay_seconds,
           max_retries |-> max_retries_arg, timeout_seconds |-> timeout_arg,
           priority |-> priority, outcome |-> outcome ])

\* mutant of submit_task: the row is inserted before the arguments are
\* validated
submit_taskInsertsFirst(name, kwargs, delay_seconds, max_retries_arg, timeout_arg, priority) ==
    /\ \E id \in TaskIds :
        /\ ~Exists(id)
        /\ \A j \in TaskIds : j < id => Exists(j)
        /\ rows' = [rows EXCEPT ![id] = Some(
                new_task(id, name, kwargs, now + delay_seconds, max_retries,
                         NULL, priority))]
        /\ call' = Called(name, kwargs, delay_seconds, max_retries_arg,
                          timeout_arg, priority,
                          IF name \notin DOMAIN registry
                             THEN <<"raise", "TaskNotFound">>
                          ELSE IF params_model(name, kwargs) = NULL
                             THEN <<"raise", "TaskExecutionError">>
                          ELSE <<"return", id>>)
    /\ UNCHANGED <<now, wk, running_tasks, call_count, registry, invocations, executor>>

\* mutant of submit_task: a call whose name and arguments are those of a
\* row of the table returns the id of that row and inserts nothing
submit_taskDedups(name, kwargs, delay_seconds, max_retries_arg, timeout_arg, priority) ==
    /\ name \in DOMAIN registry
    /\ params_model(name, kwargs) # NULL
    /\ IF \E t \in TaskIds : Exists(t) /\ Row(t).name = name
                                /\ Row(t).kwargs = Val(params_model(name, kwargs))
       THEN /\ UNCHANGED rows
            /\ call' = Called(name, kwargs, delay_seconds, max_retries_arg,
                              timeout_arg, priority,
                              <<"return", CHOOSE t \in TaskIds :
                                    Exists(t) /\ Row(t).name = name
                                    /\ Row(t).kwargs = Val(params_model(name, kwargs))>>)
       ELSE \E id \in TaskIds :
              /\ ~Exists(id)
              /\ \A j \in TaskIds : j < id => Exists(j)
              /\ rows' = [rows EXCEPT ![id] = Some(
                    new_task(id, name, Val(params_model(name, kwargs)),
                             now + delay_seconds, max_retries, NULL, priority))]
              /\ call' = Called(name, kwargs, delay_seconds, max_retries_arg,
                                timeout_arg, priority, <<"return", id>>)
    /\ UNCHANGED <<now, wk, running_tasks, call_count, registry, invocations, executor>>

\* submit_task(func, delay_seconds=, max_retries=, timeout_seconds=,
\* priority=, **kwargs); the id of the new row is the smallest unused one
submit_task(name, kwargs, delay_seconds, max_retries_arg, timeout_arg, priority) ==
    /\ IF name \notin DOMAIN registry
       THEN /\ call' = Called(name, kwargs, delay_seconds, max_retries_arg,
                              timeout_arg, priority, <<"raise", "TaskNotFound">>)
            /\ UNCHANGED rows
       ELSE LET metadata == registry[name]
                validated_kwargs == params_model(name, kwargs)
                final_max_retries ==
                    Val(resolve(max_retries_arg, metadata.max_retries, Some(max_retries)))
                final_timeout ==
                    resolve(timeout_arg, metadata.timeout_seconds,
                            default_task_timeout_seconds)
                scheduled_at == now + delay_seconds
            IN IF validated_kwargs = NULL
               THEN /\ call' = Called(name, kwargs, delay_seconds, max_retries_arg,
                                      timeout_arg, priority,
                                      <<"raise", "TaskExecutionError">>)
                    /\ UNCHANGED rows
               ELSE \E id \in TaskIds :
                      /\ ~Exists(id)
                      /\ \A j \in TaskIds : j < id => Exists(j)
                      /\ rows' = [rows EXCEPT ![id] = Some(
                            new_task(id, name, Val(validated_kwargs), scheduled_at,
                                     final_max_retries, final_timeout, priority))]
                      /\ call' = Called(name, kwargs, delay_seconds, max_retries_arg,
                                        timeout_arg, priority, <<"return", id>>)
    /\ UNCHANGED <<now, wk, running_tasks, call_count, registry, invocations, executor>>

\* submissions of the functions decorated after the import
SubmitDecorated ==
    \E c \in DecoratedSubmissions : submit_task(c[1], c[2], c[3], c[4], c[5], c[6])

\* the record kept of a use of @task: the function, the options and how
\* it ended, <<"return", function>> or <<"raise", exception>>
Decorated(f, max_retries_arg, timeout_arg, outcome) ==
    Some([ name |-> f.name, func |-> f.func, max_retries |-> max_retries_arg,
           timeout_seconds |-> timeout_arg, outcome |-> outcome ])

\* mutant of decorator: the name is bound without looking it up first
decoratorOverwrites(f, max_retries_arg, timeout_arg) ==
    /\ registry' = [name \in DOMAIN registry \cup {f.name} |->
            IF name = f.name
            THEN [func |-> f.func, max_retries |-> max_retries_arg,
                  timeout_seconds |-> timeout_arg, params |-> f.params]
            ELSE registry[name]]
    /\ call' = Decorated(f, max_retries_arg, timeout_arg, <<"return", f.func>>)
    /\ UNCHANGED <<now, rows, wk, running_tasks, call_count, invocations, executor>>

\* @task / @task(max_retries=, timeout_seconds=) applied to f
decorator(f, max_retries_arg, timeout_arg) ==
    /\ IF f.name \in DOMAIN registry
       THEN /\ call' = Decorated(f, max_retries_arg, timeout_arg,
                                 <<"raise", "TaskAlreadyRegistered">>)
            /\ UNCHANGED registry
       ELSE /\ registry' = [name \in DOMAIN registry \cup {f.name} |->
                    IF name = f.name
                    THEN [func |-> f.func, max_retries |-> max_retries_arg,
                          timeout_seconds |-> timeout_arg, params |-> f.params]
                    ELSE registry[name]]
            /\ call' = Decorated(f, max_retries_arg, timeout_arg,
                                 <<"return", f.func>>)
    /\ UNCHANGED <<now, rows, wk, running_tasks, call_count, invocations, executor>>

Register ==
    \E d \in Decorations : decorator(d[1], d[2], d[3])

\* select(Task).where(Task.id == task_id), .first(): the row of the table
\* with that id, NULL if there is none
select_by_id(table, task_id) ==
    IF \E t \in TaskIds : table[t] # NULL /\ Val(table[t]).id = task_id
    THEN table[CHOOSE t \in TaskIds : table[t] # NULL /\ Val(table[t]).id = task_id]
    ELSE NULL

\* get_task(task_id)
get_task(task_id) == select_by_id(rows, task_id)

\* the keyword arguments of a call with the declared default of every
\* parameter that has one and is not given
WithDefaults(name, kwargs) ==
    LET params == registry[name].params
    IN kwargs \cup
       { <<k, Val(Lookup(params, k).default)>> :
            k \in {p \in Keys(params) \ Keys(kwargs) : Lookup(params, p).default # NULL} }

\* list_tasks(state, name, limit): the result lists the statement can
\* produce.  The statement has no ORDER BY, so the rows that pass the
\* filters come in any order, cut at limit; a filter that is None (or
\* empty) is not applied.
list_tasks(state, name, limit) ==
    LET M == {t \in TaskIds :
                /\ Exists(t)
                /\ (state # NULL /\ Val(state) # "") => Row(t).state = Val(state)
                /\ (name # NULL /\ Val(name) # "") => Row(t).name = Val(name)}
    IN {SubSeq(s, 1, IF Len(s) < limit THEN Len(s) ELSE limit) : s \in Perms(M)}

\* limit: int = 100
default_limit == 100

\* submissions of the parameterless handler "job"
Submit ==
    \E i \in SubmitInputs :
        submit_task("job", EmptyDict, i[1], i[2], NULL, i[3])

\* submissions with every kind of argument, valid or not
SubmitCall ==
    \E c \in SubmitCalls : submit_task(c[1], c[2], c[3], c[4], c[5], c[6])

\* submissions of the tests' handlers
SubmitTest ==
    \E c \in TestSubmissions : submit_task(c[1], c[2], c[3], c[4], c[5], c[6])

\* submissions of a name the worker has not registered
SubmitForeign ==
    \E c \in ForeignSubmissions : submit_task(c[1], c[2], c[3], c[4], c[5], c[6])

\* submissions of a handler that fails up to four times
SubmitBackoff ==
    \E c \in BackoffSubmissions : submit_task(c[1], c[2], c[3], c[4], c[5], c[6])

\* where the claim transaction stands after trying to lock a row
AfterLock(w, budget, r, nowv) ==
    IF r.pc = "none"
       THEN Idle
       ELSE [pc |-> r.pc, budget |-> budget, now |-> nowv,
             cands |-> r.cands, target |-> r.target,
             waited |-> (r.pc = "waiting" \/ wk[w].pc = "waiting"),
             gathered |-> 0]

\* _try_acquire_task, up to the row lock of the SELECT ... FOR UPDATE
try_acquire_task(w, budget) ==
    \E s \in Scan(now) :
        wk' = [wk EXCEPT ![w] =
                AfterLock(w, budget, LockRows(w, s, now), now)]

\* mutant of PollRound: the for loop runs concurrency times, whatever is
\* in flight
PollRoundFullRange(w) ==
    /\ wk[w].pc = "sleep"
    /\ concurrency[w] > 0
    /\ try_acquire_task(w, concurrency[w])
    /\ UNCHANGED <<now, rows, running_tasks, call, call_count, registry, invocations, executor>>

\* run(): the poll sleep ends and the for loop makes its first claim
PollRound(w) ==
    /\ wk[w].pc = "sleep"
    /\ concurrency[w] - InFlight(w) > 0
    /\ try_acquire_task(w, concurrency[w] - InFlight(w))
    /\ UNCHANGED <<now, rows, running_tasks, call, call_count, registry, invocations, executor>>

\* run(): the for loop claims again after a successful claim
NextClaim(w) ==
    /\ wk[w].pc = "claim"
    /\ try_acquire_task(w, wk[w].budget)
    /\ UNCHANGED <<now, rows, running_tasks, call, call_count, registry, invocations, executor>>

\* the transaction holding the row lock has ended: the blocked SELECT
\* re-checks the row and goes on
LockGranted(w) ==
    /\ wk[w].pc = "waiting"
    /\ LockHolders(wk[w].target) = {}
    /\ wk' = [wk EXCEPT ![w] =
                AfterLock(w, wk[w].budget, LockRows(w, wk[w].cands, wk[w].now), wk[w].now)]
    /\ UNCHANGED <<now, rows, running_tasks, call, call_count, registry, invocations, executor>>

\* _try_acquire_task, the UPDATE and COMMIT; run() then creates the
\* asyncio task and goes on with its for loop
CommitClaim(w) ==
    /\ wk[w].pc = "locked"
    /\ LET t == wk[w].target
           budget == wk[w].budget - 1
       IN /\ rows' = [rows EXCEPT ![t] = Some(
                [Row(t) EXCEPT !.state = "running",
                               !.worker_id = Some(w),
                               !.locked_until = Some(wk[w].now + lock_timeout_seconds),
                               !.started_at = Some(wk[w].now)])]
          /\ running_tasks' = [running_tasks EXCEPT ![w][t] = @ + 1]
          /\ wk' = [wk EXCEPT ![w] =
                IF budget > 0 THEN [Idle EXCEPT !.pc = "claim", !.budget = budget]
                ELSE Idle]
    /\ UNCHANGED <<now, call, call_count, registry, invocations, executor>>

\* the record kept of a claim attempt that ended in the except clause of
\* _try_acquire_task: the worker and the statement that raised
ClaimError(w, statement) ==
    Some([claim |-> w, statement |-> statement,
          outcome |-> <<"raise", "OperationalError">>])

\* _try_acquire_task, a database error in the open transaction (the
\* connection is lost while the SELECT waits, or the UPDATE or the COMMIT
\* is refused): the transaction is rolled back, the error is logged, None
\* is returned and run() leaves its for loop for the poll sleep
ClaimFails(w) ==
    /\ wk[w].pc \in {"locked", "waiting"}
    /\ wk' = [wk EXCEPT ![w] = Idle]
    /\ call' = ClaimError(w, "commit")
    /\ UNCHANGED <<now, rows, running_tasks, call_count, registry, invocations, executor>>

\* _try_acquire_task, a database error in session.refresh(task), after the
\* COMMIT has succeeded: the row stays as the UPDATE has left it, the error
\* is logged, None is returned and no asyncio task is created
RefreshFails(w) ==
    /\ wk[w].pc = "locked"
    /\ rows' = [rows EXCEPT ![wk[w].target] = Some(
            [Row(wk[w].target) EXCEPT
                !.state = "running",
                !.worker_id = Some(w),
                !.locked_until = Some(wk[w].now + lock_timeout_seconds),
                !.started_at = Some(wk[w].now)])]
    /\ wk' = [wk EXCEPT ![w] = Idle]
    /\ call' = ClaimError(w, "refresh")
    /\ UNCHANGED <<now, running_tasks, call_count, registry, invocations, executor>>

\* mutant of _mark_completed: the lease fields are not cleared
mark_completedKeepsLease(task, result) ==
    [task EXCEPT !.state = "completed",
                 !.result = IF result # NULL THEN Some([value |-> Val(result)]) ELSE NULL,
                 !.completed_at = Some(now)]

\* mutant of _mark_completed: the arguments are removed from the finished row
mark_completedDropsKwargs(task, result) ==
    [task EXCEPT !.state = "completed",
                 !.result = IF result # NULL THEN Some([value |-> Val(result)]) ELSE NULL,
                 !.completed_at = Some(now),
                 !.locked_until = NULL,
                 !.worker_id = NULL,
                 !.kwargs = EmptyDict]

\* mutant of _mark_completed: the result is wrapped if it is truthy
mark_completedIfTruthy(task, result) ==
    [task EXCEPT !.state = "completed",
                 !.result = IF result # NULL /\ Val(result) # ""
                            THEN Some([value |-> Val(result)]) ELSE NULL,
                 !.completed_at = Some(now),
                 !.locked_until = NULL,
                 !.worker_id = NULL]

\* _mark_completed(task, result)
mark_completed(task, result) ==
    [task EXCEPT !.state = "completed",
                 !.result = IF result # NULL THEN Some([value |-> Val(result)]) ELSE NULL,
                 !.completed_at = Some(now),
                 !.locked_until = NULL,
                 !.worker_id = NULL]

\* mutant of _handle_failure: the retry branch does not store the new
\* retry_count
handle_failureKeepsCount(task, error) ==
    IF task.retry_count < task.max_retries
    THEN LET retry_count == task.retry_count + 1
             delay == base_retry_delay_seconds
                        * Pow(retry_backoff_multiplier, retry_count - 1)
         IN [task EXCEPT !.state = "failed",
                         !.next_retry_at = Some(now + delay),
                         !.error = Some(error),
                         !.locked_until = NULL,
                         !.worker_id = NULL]
    ELSE [task EXCEPT !.state = "failed",
                      !.error = Some(error),
                      !.completed_at = Some(now),
                      !.locked_until = NULL,
                      !.worker_id = NULL]

\* mutant of _handle_failure: the exponent of the backoff is the new
\* retry_count
handle_failureLongDelay(task, error) ==
    IF task.retry_count < task.max_retries
    THEN LET retry_count == task.retry_count + 1
             delay == base_retry_delay_seconds
                        * Pow(retry_backoff_multiplier, retry_count)
         IN [task EXCEPT !.state = "failed",
                         !.retry_count = retry_count,
                         !.next_retry_at = Some(now + delay),
                         !.error = Some(error),
                         !.locked_until = NULL,
                         !.worker_id = NULL]
    ELSE [task EXCEPT !.state = "failed",
                      !.error = Some(error),
                      !.completed_at = Some(now),
                      !.locked_until = NULL,
                      !.worker_id = NULL]

\* _handle_failure(task, error)
handle_failure(task, error) ==
    IF task.retry_count < task.max_retries
    THEN LET retry_count == task.retry_count + 1
             delay == base_retry_delay_seconds
                        * Pow(retry_backoff_multiplier, retry_count - 1)
         IN [task EXCEPT !.state = "failed",
                         !.retry_count = retry_count,
                         !.next_retry_at = Some(now + delay),
                         !.error = Some(error),
                         !.locked_until = NULL,
                         !.worker_id = NULL]
    ELSE [task EXCEPT !.state = "failed",
                      !.error = Some(error),
                      !.completed_at = Some(now),
                      !.locked_until = NULL,
                      !.worker_id = NULL]

\* the registered functions: what a call can do (flaky_task raises unless
\* its counter, incremented by the call, has reached 2)
func(name) ==
    CASE name = "add" -> {"return_value"}
      [] name = "always_fails" -> {"raise"}
      [] name = "flaky_task" ->
            IF call_count + 1 < 2 THEN {"raise"} ELSE {"return_value"}
      [] name = "slow_task" -> {"return_value"}
      [] OTHER -> Returns

\* the handlers whose invocations are counted: the ones of the tests
Counted == {"add", "always_fails", "flaky_task", "slow_task"}

\* how long a call takes: slow_task sleeps, nothing is assumed of the others
duration(name) == IF name = "slow_task" THEN Some(SlowSeconds) ELSE NULL

\* the exception a failed attempt is recorded with
exception(name, result) ==
    IF result = "timeout" THEN "TaskTimeoutError"
    ELSE IF result = "not_registered" THEN "TaskExecutionError"
    ELSE IF name = "always_fails" THEN "RuntimeError"
    ELSE "ValueError"

\* mutant of await_results: the name is not looked up, a row of any name is
\* run
await_resultsAnyName(task) ==
    IF task.timeout_seconds # NULL /\ Val(task.timeout_seconds) # 0
    THEN func(task.name) \cup {"timeout"}
    ELSE func(task.name)

\* the ways an attempt can end: TaskExecutionError is raised if the row's
\* name is not registered in the worker; otherwise the handler is awaited,
\* under asyncio.wait_for if task.timeout_seconds is truthy, without a
\* timeout otherwise
await_results(task) ==
    IF task.name \notin worker_task_registry THEN {"not_registered"}
    ELSE IF task.timeout_seconds # NULL /\ Val(task.timeout_seconds) # 0
    THEN IF duration(task.name) = NULL
            THEN func(task.name) \cup {"timeout"}
         ELSE IF Val(duration(task.name)) > Val(task.timeout_seconds)
            THEN {"timeout"}
         ELSE IF Val(duration(task.name)) < Val(task.timeout_seconds)
            THEN func(task.name)
         ELSE func(task.name) \cup {"timeout"}
    ELSE func(task.name)

\* mutant of execute_task: an attempt that fails ends the worker's loop
execute_taskStopsLoop(w, t, result) ==
    /\ wk[w].pc \in {"sleep", "stopping"}
    /\ running_tasks[w][t] > 0
    /\ LockHolders(t) = {}
    /\ result \in await_results(Row(t))
    /\ rows' = [rows EXCEPT ![t] = Some(
            CASE result = "return_value" -> mark_completed(Row(t), Some("done"))
              [] result = "return_none" -> mark_completed(Row(t), NULL)
              [] result = "return_empty" -> mark_completed(Row(t), Some(""))
              [] OTHER -> handle_failure(Row(t), exception(Row(t).name, result)))]
    /\ running_tasks' = [running_tasks EXCEPT ![w][t] = @ - 1]
    /\ call_count' = IF Row(t).name = "flaky_task" /\ call_count < 2
                     THEN call_count + 1 ELSE call_count
    /\ invocations' = IF Row(t).name \in Counted /\ invocations[t] < MaxInvocations
                      THEN [invocations EXCEPT ![t] = @ + 1] ELSE invocations
    /\ executor' = IF result = "timeout"
                   THEN [executor EXCEPT ![w] = @ \cup {t}] ELSE executor
    /\ wk' = IF result \in {"return_value", "return_none", "return_empty"} THEN wk
             ELSE [wk EXCEPT ![w].pc = "stopped"]
    /\ UNCHANGED <<now, call, registry>>

\* _execute_task(task): the handler runs and its outcome is written; the
\* done callback discards the asyncio task from _running_tasks
execute_task(w, t, result) ==
    /\ wk[w].pc \in {"sleep", "stopping"}
    /\ running_tasks[w][t] > 0
    /\ LockHolders(t) = {}
    /\ result \in await_results(Row(t))
    /\ rows' = [rows EXCEPT ![t] = Some(
            CASE result = "return_value" -> mark_completed(Row(t), Some("done"))
              [] result = "return_none" -> mark_completed(Row(t), NULL)
              [] result = "return_empty" -> mark_completed(Row(t), Some(""))
              [] OTHER -> handle_failure(Row(t), exception(Row(t).name, result)))]
    /\ running_tasks' = [running_tasks EXCEPT ![w][t] = @ - 1]
    /\ call_count' = IF Row(t).name = "flaky_task" /\ call_count < 2
                     THEN call_count + 1 ELSE call_count
    /\ invocations' = IF Row(t).name \in Counted /\ invocations[t] < MaxInvocations
                      THEN [invocations EXCEPT ![t] = @ + 1] ELSE invocations
    /\ executor' = IF result = "timeout"
                   THEN [executor EXCEPT ![w] = @ \cup {t}] ELSE executor
    /\ UNCHANGED <<now, wk, call, registry>>

\* mutant of handler_returns: the handler's late return is written on the row
handler_returnsWrites(w, t) ==
    /\ t \in executor[w]
    /\ executor' = [executor EXCEPT ![w] = @ \ {t}]
    /\ rows' = [rows EXCEPT ![t] = Some(mark_completed(Row(t), Some("done")))]
    /\ UNCHANGED <<now, wk, running_tasks, call, call_count, registry, invocations>>

\* _run_sync_in_executor: a handler that was abandoned at its timeout
\* returns in its thread; the future it reports to is cancelled, nobody
\* awaits it
handler_returns(w, t) ==
    /\ t \in executor[w]
    /\ executor' = [executor EXCEPT ![w] = @ \ {t}]
    /\ UNCHANGED <<now, rows, wk, running_tasks, call, call_count, registry, invocations>>

ExecuteTask == \E w \in Workers, t \in TaskIds, o \in Outcomes : execute_task(w, t, o)

\* the worker process dies (kill -9, power loss): its open transaction is
\* rolled back and its in-flight executions and its threads are gone
Crash(w) ==
    /\ alive(w)
    /\ wk' = [wk EXCEPT ![w] = [Idle EXCEPT !.pc = "dead"]]
    /\ running_tasks' = [running_tasks EXCEPT ![w] = [t \in TaskIds |-> 0]]
    /\ executor' = [executor EXCEPT ![w] = {}]
    /\ UNCHANGED <<now, rows, call, call_count, registry, invocations>>

\* shutdown(), up to its await: called while run() is in its poll sleep
\* (by another coroutine, or from run()'s finally when the sleep is
\* cancelled); the loop's next test of _shutdown ends the loop
shutdown(w) ==
    /\ wk[w].pc = "sleep"
    /\ wk' = [wk EXCEPT ![w] =
                [Idle EXCEPT !.pc = "stopping", !.gathered = InFlight(w)]]
    /\ UNCHANGED <<now, rows, running_tasks, call, call_count, registry, invocations, executor>>

\* mutant of gather: shutdown() does not wait for the executions
gatherNoWait(w) ==
    /\ wk[w].pc = "stopping"
    /\ wk' = [wk EXCEPT ![w].pc = "stopped"]
    /\ UNCHANGED <<now, rows, running_tasks, call, call_count, registry, invocations, executor>>

\* await asyncio.gather(*self._running_tasks) returns when every execution
\* has ended; shutdown() and then run() return
gather(w) ==
    /\ wk[w].pc = "stopping"
    /\ InFlight(w) = 0
    /\ wk' = [wk EXCEPT ![w].pc = "stopped"]
    /\ UNCHANGED <<now, rows, running_tasks, call, call_count, registry, invocations, executor>>

\* DASHBOARD_MODE of a dashboard process
Modes == {"readonly", "readwrite"}

\* the record kept of a request to a write endpoint of the dashboard and
\* how it ended, <<"return", id>> or <<"raise", error>>
Requested(endpoint, mode, arg, outcome) ==
    Some([endpoint |-> endpoint, mode |-> mode, arg |-> arg, outcome |-> outcome])

\* PATCH /api/tasks/{task_id}/cancel of a dashboard in the given mode, up
\* to the assignment: the mode is tested, the row is read and its state is
\* tested.  A request that has passed the tests is recorded with the
\* outcome <<"selected", id>> until it commits.
cancel_task(mode, task_id) ==
    /\ call' = Requested("cancel_task", mode, task_id,
            IF mode = "readonly" THEN <<"raise", "403">>
            ELSE IF select_by_id(rows, task_id) = NULL THEN <<"raise", "404">>
            ELSE IF Val(select_by_id(rows, task_id)).state # "pending"
                THEN <<"raise", "400">>
            ELSE <<"selected", task_id>>)
    /\ UNCHANGED <<now, rows, wk, running_tasks, call_count, registry, invocations, executor>>

\* cancel_task, the assignment and the commit: the session writes the one
\* changed attribute, UPDATE tasks SET state = 'cancelled' WHERE id = ...,
\* which waits for a row lock held by an open claim transaction
cancel_commit ==
    /\ call # NULL
    /\ "endpoint" \in DOMAIN Val(call)
    /\ Val(call).outcome[1] = "selected"
    /\ LET task_id == Val(call).outcome[2]
       IN /\ \A t \in TaskIds :
                (Exists(t) /\ Row(t).id = task_id) => LockHolders(t) = {}
          /\ rows' = [t \in TaskIds |->
                IF rows[t] # NULL /\ Val(rows[t]).id = task_id
                THEN Some([Val(rows[t]) EXCEPT !.state = "cancelled"])
                ELSE rows[t]]
          /\ call' = Requested("cancel_task", Val(call).mode, task_id,
                               <<"return", task_id>>)
    /\ UNCHANGED <<now, wk, running_tasks, call_count, registry, invocations, executor>>

\* POST /api/tasks of a dashboard in the given mode: the Task it builds has
\* no max_retries, which the column requires, so the INSERT is refused
create_task(mode, name, priority) ==
    /\ call' = Requested("create_task", mode, name,
                         IF mode = "readonly" THEN <<"raise", "403">>
                         ELSE <<"raise", "IntegrityError">>)
    /\ UNCHANGED <<now, rows, wk, running_tasks, call_count, registry, invocations, executor>>

Next ==
    \/ Tick
    \/ Submit
    \/ \E w \in Workers : PollRound(w)
    \/ \E w \in Workers : NextClaim(w)
    \/ \E w \in Workers : LockGranted(w)
    \/ \E w \in Workers : CommitClaim(w)
    \/ ExecuteTask
    \/ \E w \in Workers : Crash(w)

Spec == Init /\ [][Next]_vars

\* ------------------------------------------------------------ properties
HolderCount(t) ==
    LET RECURSIVE Sum(_)
        Sum(S) == IF S = {} THEN 0
                  ELSE LET w == CHOOSE x \in S : TRUE
                       IN running_tasks[w][t] + Sum(S \ {w})
    IN Sum(Workers)

\* the row is failed with retries exhausted (terminal and not completed)
IsTerminalFailed(t) ==
    Exists(t) /\ Row(t).state = "failed" /\ is_terminal(Row(t))

\* C1: claim exclusivity.  At every instant a task is held (claimed, outcome
\* not yet written) by at most one execution over all workers, and the
\* holder is the worker named on the row, which is in state running.
ClaimExclusivity ==
    \A t \in TaskIds :
        /\ HolderCount(t) <= 1
        /\ \A w \in Workers : running_tasks[w][t] > 0 =>
              /\ Row(t).state = "running"
              /\ Row(t).worker_id = Some(w)

\* C1 witness: a worker's claim is blocked on a row that another worker
\* has meanwhile claimed and holds in state running.
ClaimContended ==
    \E w, v \in Workers : \E t \in TaskIds :
        /\ w # v
        /\ wk[v].pc = "waiting" /\ wk[v].target = t
        /\ running_tasks[w][t] = 1
        /\ Row(t).state = "running"

\* C2 (as claimed): a running row whose lease has passed and whose claimant
\* has crashed is claimable again.
ExpiredLeaseClaimable ==
    \A t \in TaskIds :
        ( /\ Exists(t)
          /\ Row(t).state = "running"
          /\ Val(Row(t).locked_until) < now
          /\ ~alive(Val(Row(t).worker_id)) )
        => ClaimWhere(Row(t), now)

\* C3 (as claimed): a failed row with retries exhausted never changes again
\* and is never claimed again.
ExhaustedIsTerminal ==
    [][\A t \in TaskIds : IsTerminalFailed(t) =>
          /\ rows'[t] = rows[t]
          /\ \A w \in Workers : ~(wk'[w].pc = "locked" /\ wk'[w].target = t)]_vars

\* C4 (as claimed): a failed row waiting for a retry has its scheduled_at
\* advanced to the retry time, so it is not claimable before that time.
BackoffGating ==
    \A t \in TaskIds :
        ( /\ Exists(t)
          /\ Row(t).state = "failed"
          /\ Row(t).completed_at = NULL
          /\ Row(t).next_retry_at # NULL )
        => /\ Row(t).scheduled_at = Val(Row(t).next_retry_at)
           /\ (now < Val(Row(t).next_retry_at) => ~ClaimWhere(Row(t), now))

StillEligible(w) ==
    {i \in 1..Len(wk[w].cands) : ClaimWhere(Row(wk[w].cands[i]), wk[w].now)}

CompletedHasNoError ==
    \A t \in TaskIds :
        (Exists(t) /\ Row(t).state = "completed") => Row(t).error = NULL

\* C7 (as claimed): a failed row with retries exhausted has its error and
\* its completed_at set.
ExhaustedHasOutcome ==
    \A t \in TaskIds :
        IsTerminalFailed(t) =>
            Row(t).error # NULL /\ Row(t).completed_at # NULL

RetryCountBounded ==
    \A t \in TaskIds : Exists(t) => Row(t).retry_count <= Row(t).max_retries

\* C11: lease invariant.  In every committed state a running row names its
\* worker and has locked_until and started_at set; a pending, completed or
\* failed row has neither worker_id nor locked_until.
LeaseInvariant ==
    \A t \in TaskIds : Exists(t) =>
        /\ Row(t).state = "running" =>
              /\ Row(t).worker_id # NULL
              /\ Row(t).locked_until # NULL
              /\ Row(t).started_at # NULL
        /\ Row(t).state \in {"pending", "completed", "failed"} =>
              /\ Row(t).worker_id = NULL
              /\ Row(t).locked_until = NULL

\* C11 witness: one row has been claimed and its outcome written (the lease
\* was given back) while another row is held under a lease.
LeaseGivenBack ==
    \E t, u \in TaskIds :
        /\ Exists(t) /\ Exists(u)
        /\ Row(t).state \in {"completed", "failed"}
        /\ Row(t).started_at # NULL
        /\ Row(u).state = "running"

\* a ranks strictly before b in the claim order
Outranks(a, b) ==
    \/ a.priority > b.priority
    \/ a.priority = b.priority /\ a.created_at < b.created_at

DelayedNotClaimed ==
    \A t \in TaskIds : Exists(t) =>
        /\ Row(t).scheduled_at > now =>
              /\ Row(t).state = "pending"
              /\ Row(t).started_at = NULL
              /\ HolderCount(t) = 0
              /\ LockHolders(t) = {}
        /\ \A w \in Workers :
              (wk[w].pc = "locked" /\ wk[w].target = t) =>
                  Row(t).scheduled_at <= wk[w].now
        /\ Row(t).started_at # NULL =>
              Row(t).scheduled_at <= Val(Row(t).started_at)
        /\ (Row(t).state = "pending" /\ Row(t).scheduled_at <= now) =>
              \E s \in Scan(now) : \E i \in 1..Len(s) : s[i] = t

\* C13 witness: a claim has passed over an older row of higher priority
\* whose scheduled_at was still in the future and locked a due row instead.
DelayedPassedOver ==
    \E w \in Workers : \E t, u \in TaskIds :
        /\ t < u /\ Exists(t) /\ Exists(u)
        /\ wk[w].pc = "locked" /\ wk[w].target = u
        /\ Row(t).scheduled_at > wk[w].now
        /\ Row(t).priority > Row(u).priority

\* ------------------------------------------------- one polling worker
\* A single worker with the default concurrency of 1 that keeps polling:
\* its loop always comes back from the poll sleep, its transaction commits,
\* and every handler it starts comes to an end.
Poller == "w2"

FairNext ==
    \/ Tick
    \/ Submit
    \/ PollRound(Poller)
    \/ CommitClaim(Poller)
    \/ \E t \in TaskIds, o \in Outcomes : execute_task(Poller, t, o)

FairSpec ==
    /\ Init
    /\ [][FairNext]_vars
    /\ WF_vars(PollRound(Poller))
    /\ WF_vars(CommitClaim(Poller))
    /\ WF_vars(\E t \in TaskIds, o \in Outcomes : execute_task(Poller, t, o))

\* The submit side alone: calls of submit_task with registered and
\* unregistered names and with valid and invalid arguments, at any time.
SubmitNext ==
    \/ Tick
    \/ SubmitCall

SubmitSpec == Init /\ [][SubmitNext]_vars

\* The registry: functions are decorated after the import and submitted
\* before and after their registration.
RegistryNext ==
    \/ Register
    \/ SubmitDecorated

RegistrySpec == Init /\ [][RegistryNext]_vars

\* A worker with concurrency 2 that is shut down at some time, with
\* submissions before and after.
Stopper == "w1"

ShutdownNext ==
    \/ Tick
    \/ Submit
    \/ PollRound(Stopper)
    \/ NextClaim(Stopper)
    \/ CommitClaim(Stopper)
    \/ \E t \in TaskIds, o \in Outcomes : execute_task(Stopper, t, o)
    \/ shutdown(Stopper)
    \/ gather(Stopper)

ShutdownSpec == Init /\ [][ShutdownNext]_vars

\* The polling worker and the write endpoints of the dashboard.
DashboardNext ==
    \/ Tick
    \/ Submit
    \/ PollRound(Poller)
    \/ CommitClaim(Poller)
    \/ \E t \in TaskIds, o \in Outcomes : execute_task(Poller, t, o)
    \/ \E mode \in Modes, task_id \in TaskIds : cancel_task(mode, task_id)
    \/ cancel_commit
    \/ \E mode \in Modes : create_task(mode, "job", 0)

DashboardSpec == Init /\ [][DashboardNext]_vars

\* The polling worker with the handlers of the tests.
HandlerNext ==
    \/ Tick
    \/ SubmitTest
    \/ PollRound(Poller)
    \/ CommitClaim(Poller)
    \/ \E t \in TaskIds, r \in Results : execute_task(Poller, t, r)
    \/ \E t \in TaskIds : handler_returns(Poller, t)

HandlerSpec ==
    /\ Init
    /\ [][HandlerNext]_vars
    /\ WF_vars(PollRound(Poller))
    /\ WF_vars(CommitClaim(Poller))
    /\ WF_vars(\E t \in TaskIds, r \in Results : execute_task(Poller, t, r))

\* The polling worker and rows of a name it has not registered.
ForeignNext ==
    \/ Tick
    \/ SubmitForeign
    \/ PollRound(Poller)
    \/ CommitClaim(Poller)
    \/ \E t \in TaskIds, r \in Attempts : execute_task(Poller, t, r)
    \/ \E t \in TaskIds : handler_returns(Poller, t)

ForeignSpec == Init /\ [][ForeignNext]_vars

\* A worker with concurrency 2 whose claim transactions can hit a database
\* error.
Faulty == "w1"

FaultNext ==
    \/ Tick
    \/ Submit
    \/ PollRound(Faulty)
    \/ NextClaim(Faulty)
    \/ CommitClaim(Faulty)
    \/ \E t \in TaskIds, o \in Outcomes : execute_task(Faulty, t, o)
    \/ ClaimFails(Faulty)
    \/ RefreshFails(Faulty)

FaultSpec == Init /\ [][FaultNext]_vars

\* The polling worker and a handler that fails at every attempt, with up to
\* three retries.
BackoffNext ==
    \/ Tick
    \/ SubmitBackoff
    \/ PollRound(Poller)
    \/ CommitClaim(Poller)
    \/ \E t \in TaskIds, r \in Results : execute_task(Poller, t, r)

BackoffSpec == Init /\ [][BackoffNext]_vars

\* The polling worker and a handler that returns a value, the empty string
\* or None, or raises.
ReturnNext ==
    \/ Tick
    \/ Submit
    \/ PollRound(Poller)
    \/ CommitClaim(Poller)
    \/ \E t \in TaskIds, r \in Returns : execute_task(Poller, t, r)

ReturnSpec == Init /\ [][ReturnNext]_vars

\* C8 (as claimed): once submissions have stopped, every due pending row is
\* eventually claimed by the polling worker.
NoStarvation ==
    \A t \in TaskIds :
        (Exists(t) /\ Row(t).state = "pending" /\ Row(t).scheduled_at <= now)
            ~> (Exists(t) /\ Row(t).state # "pending")

\* C14 (as claimed): every due row of always_fails (max_retries 1), with a
\* worker that keeps polling, eventually is failed with retry_count =
\* max_retries, error and completed_at set and is_terminal true.
PermanentFailure ==
    \A t \in TaskIds :
        (Exists(t) /\ Row(t).name = "always_fails" /\ Row(t).scheduled_at <= now)
            ~> ( /\ Exists(t)
                 /\ Row(t).state = "failed"
                 /\ Row(t).retry_count = Row(t).max_retries
                 /\ Row(t).error # NULL
                 /\ Row(t).completed_at # NULL
                 /\ is_terminal(Row(t)) )

\* C15 (as claimed): every due row of flaky_task (max_retries 2; the
\* handler fails on its first call and succeeds afterwards) is eventually
\* completed with the handler's return value as result and with retry_count
\* equal to the number of its failed attempts (1 if it has an error
\* recorded, 0 otherwise).
RetryThenSucceed ==
    \A t \in TaskIds :
        (Exists(t) /\ Row(t).name = "flaky_task" /\ Row(t).scheduled_at <= now)
            ~> ( /\ Exists(t)
                 /\ Row(t).state = "completed"
                 /\ Row(t).result = Some([value |-> "done"])
                 /\ Row(t).retry_count = IF Row(t).error = NULL THEN 0 ELSE 1 )

\* C16 (as claimed): every due row of add (the handler returns normally) is
\* eventually completed with the handler's return value as result, and it
\* is claimed for execution only once.
SuccessPath ==
    /\ \A t \in TaskIds :
        (Exists(t) /\ Row(t).name = "add" /\ Row(t).scheduled_at <= now)
            ~> ( /\ Exists(t)
                 /\ Row(t).state = "completed"
                 /\ Row(t).result = Some([value |-> "done"]) )
    /\ [][\A t \in TaskIds :
            ( /\ Exists(t) /\ Row(t).name = "add"
              /\ \E w \in Workers : running_tasks'[w][t] > running_tasks[w][t] )
            => Row(t).started_at = NULL]_vars

\* C17 (as claimed): when the outcome of an attempt is written on a row of
\* slow_task whose timeout_seconds is set and shorter than the handler's
\* sleep, the row is failed with a timeout error.
TimeoutRecorded ==
    [][\A t \in TaskIds :
          ( /\ Exists(t) /\ Row(t).name = "slow_task"
            /\ Row(t).timeout_seconds # NULL
            /\ Val(Row(t).timeout_seconds) < SlowSeconds
            /\ Row(t).state = "running"
            /\ rows'[t] # rows[t] )
          => /\ Val(rows'[t]).state = "failed"
             /\ Val(rows'[t]).error = Some("TaskTimeoutError")]_vars

\* the step is a call of submit_task that returned an id
Returned == call' # call /\ Val(call').outcome[1] = "return"

\* C18: submission errors leave the store unchanged.  A call of submit_task
\* whose name is not registered, or whose arguments the handler's params
\* model rejects, raises, and a call that raises leaves the table as it was.
SubmitErrorWritesNothing ==
    [][call' # call =>
          LET c == Val(call')
              rejected == IF c.name \notin DOMAIN registry THEN TRUE
                          ELSE params_model(c.name, c.kwargs) = NULL
          IN /\ rejected => c.outcome[1] = "raise"
             /\ c.outcome[1] = "raise" => rows' = rows]_vars

\* C18 witness: with a row in the table, a call with a required parameter
\* missing or of the wrong type has raised.
SubmitRejected ==
    /\ call # NULL
    /\ Val(call).outcome = <<"raise", "TaskExecutionError">>
    /\ Exists(1)

\* C19: override precedence.  The stored max_retries is the override of the
\* call if given, else the registered one if any, else the config default;
\* likewise timeout_seconds.
OverridePrecedence ==
    [][Returned =>
          LET c == Val(call')
              task == Val(rows'[c.outcome[2]])
              metadata == registry[c.name]
          IN /\ task.max_retries =
                    IF c.max_retries # NULL THEN Val(c.max_retries)
                    ELSE IF metadata.max_retries # NULL THEN Val(metadata.max_retries)
                    ELSE max_retries
             /\ task.timeout_seconds =
                    IF c.timeout_seconds # NULL THEN c.timeout_seconds
                    ELSE IF metadata.timeout_seconds # NULL THEN metadata.timeout_seconds
                    ELSE default_task_timeout_seconds]_vars

\* C19 witness: custom_task, registered with both values, has been
\* submitted with an override of max_retries and none of timeout_seconds.
OverrideOverRegistration ==
    /\ call # NULL
    /\ Val(call).name = "custom_task"
    /\ Val(call).max_retries # NULL
    /\ Val(call).timeout_seconds = NULL
    /\ Val(call).outcome[1] = "return"

\* C20: initial row.  A call that returns adds exactly one row, under the
\* id it returns, and changes no other; the row is pending with retry_count
\* 0, args {}, the validated arguments as kwargs, no result, no error, no
\* lease, and scheduled_at = time of the call + delay_seconds; get_task of
\* the id returns this row.
InitialRow ==
    [][Returned =>
          LET c == Val(call')
              id == c.outcome[2]
              task == Val(rows'[id])
          IN /\ ~Exists(id)
             /\ \A t \in TaskIds \ {id} : rows'[t] = rows[t]
             /\ task.id = id
             /\ task.name = c.name
             /\ task.state = "pending"
             /\ task.retry_count = 0
             /\ task.args = EmptyDict
             /\ task.kwargs = Val(params_model(c.name, c.kwargs))
             /\ task.result = NULL
             /\ task.error = NULL
             /\ task.worker_id = NULL
             /\ task.locked_until = NULL
             /\ task.scheduled_at = now + c.delay_seconds
             /\ select_by_id(rows', id) = Some(task)]_vars

\* C20 witness: a second row has been added by a delayed submit whose
\* arguments validation has changed (a default filled in or a value
\* converted).
DelayedRowAdded ==
    /\ call # NULL
    /\ Val(call).outcome = <<"return", 2>>
    /\ Val(call).delay_seconds > 0
    /\ Row(2).kwargs # Val(call).kwargs
    /\ now > 0

\* C21 (as claimed): the kwargs of the row a call has stored equal the
\* keyword arguments of the call with the omitted defaults filled in.
ValidatorRoundTrip ==
    [][Returned =>
          LET c == Val(call')
          IN Val(select_by_id(rows', c.outcome[2])).kwargs
                = WithDefaults(c.name, c.kwargs)]_vars

\* C21 (amended): the stored kwargs have exactly the declared parameters as
\* keys; a parameter that is given is stored with a value of its declared
\* type, the given value itself if it has that type; a parameter that is
\* not given is stored with its declared default; hence the stored kwargs
\* equal the call's with defaults filled in whenever the call gives only
\* declared parameters, each with a value of its declared type.
ValidatorNormalises ==
    [][Returned =>
          LET c == Val(call')
              X == c.kwargs
              params == registry[c.name].params
              stored == Val(select_by_id(rows', c.outcome[2])).kwargs
              typed(k) == Lookup(X, k)[1] = Lookup(params, k).annotation
          IN /\ Keys(stored) = Keys(params)
             /\ Cardinality(stored) = Cardinality(Keys(params))
             /\ \A k \in Keys(params) :
                    IF k \in Keys(X)
                    THEN /\ Lookup(stored, k)[1] = Lookup(params, k).annotation
                         /\ typed(k) => Lookup(stored, k) = Lookup(X, k)
                    ELSE Some(Lookup(stored, k)) = Lookup(params, k).default
             /\ (Keys(X) \subseteq Keys(params) /\ \A k \in Keys(X) : typed(k))
                    => stored = WithDefaults(c.name, X)]_vars

\* C21 witness: f(x, y=10) submitted with x=5 has stored {x: 5, y: 10}.
DefaultFilledIn ==
    /\ call # NULL
    /\ Val(call).name = "optional_param_task"
    /\ Val(call).kwargs = {<<"x", IntV(5)>>}
    /\ Val(call).outcome[1] = "return"
    /\ Row(Val(call).outcome[2]).kwargs = {<<"x", IntV(5)>>, <<"y", IntV(10)>>}

\* C22: duplicate registration.  A use of @task on a function whose name
\* is already in the registry raises TaskAlreadyRegistered and leaves the
\* registry as it was, one on a function whose name is not in it binds the
\* name to that function; a name that is bound stays bound to the same
\* function and metadata for ever.
DuplicateRegistration ==
    [][ /\ \A name \in DOMAIN registry :
              name \in DOMAIN registry' /\ registry'[name] = registry[name]
        /\ (call' # NULL /\ "func" \in DOMAIN Val(call') /\ call' # call) =>
              LET c == Val(call')
              IN IF c.name \in DOMAIN registry
                 THEN /\ c.outcome = <<"raise", "TaskAlreadyRegistered">>
                      /\ registry' = registry
                 ELSE /\ c.outcome = <<"return", c.func>>
                      /\ registry'[c.name].func = c.func
                      /\ DOMAIN registry' = DOMAIN registry \cup {c.name} ]_vars

\* C22 witness: the second function named duplicate has been refused and
\* the name is still bound to the first.
DuplicateRefused ==
    /\ call # NULL
    /\ "func" \in DOMAIN Val(call)
    /\ Val(call).name = "duplicate" /\ Val(call).func = "second"
    /\ Val(call).outcome = <<"raise", "TaskAlreadyRegistered">>
    /\ registry["duplicate"].func = "first"

\* C23: no deduplication and unique ids.  No two rows have the same id; a
\* row is never removed and never changes its id; and every call of
\* submit_task that returns, whatever rows the table holds, returns an id
\* that no row had before and adds exactly one row, which has that id.
UniqueIds ==
    /\ [](\A t, u \in TaskIds :
            (Exists(t) /\ Exists(u) /\ Row(t).id = Row(u).id) => t = u)
    /\ [][ /\ \A t \in TaskIds :
                Exists(t) => (rows'[t] # NULL /\ Val(rows'[t]).id = Row(t).id)
          /\ Returned =>
                LET id == Val(call').outcome[2]
                IN /\ \A t \in TaskIds : Exists(t) => Row(t).id # id
                   /\ Cardinality({t \in TaskIds :
                            rows'[t] # NULL /\ Val(rows'[t]).id = id}) = 1
                   /\ Cardinality({t \in TaskIds : rows'[t] # NULL})
                        = Cardinality({t \in TaskIds : Exists(t)}) + 1 ]_vars

\* C23 witness: two submits with the same name, arguments and options at
\* the same time have left two rows that differ in nothing but their id.
TwoIdenticalSubmits ==
    /\ Exists(1) /\ Exists(2)
    /\ Row(1).id # Row(2).id
    /\ [Row(1) EXCEPT !.id = Row(2).id] = Row(2)

\* C24: graceful shutdown.  From the call of shutdown() on, the worker
\* opens no claim transaction, no row becomes running and no execution is
\* started; the only changes of rows are outcome writes of its executions
\* in flight; and run() has returned only when every execution that was in
\* flight has ended with its outcome written, so that no row is running
\* under this worker and none is held.
GracefulShutdown ==
    /\ [][\A w \in Workers : wk[w].pc \in {"stopping", "stopped"} =>
            /\ wk'[w].pc \in {"stopping", "stopped"}
            /\ \A t \in TaskIds :
                  /\ running_tasks'[w][t] <= running_tasks[w][t]
                  /\ (Exists(t) /\ Row(t).state # "running") =>
                        Val(rows'[t]).state # "running"
                  /\ (Exists(t) /\ rows'[t] # rows[t]) =>
                        /\ running_tasks'[w][t] < running_tasks[w][t]
                        /\ Row(t).state = "running"
                        /\ Val(rows'[t]).state \in {"completed", "failed"}]_vars
    /\ [](\A w \in Workers : wk[w].pc = "stopped" =>
            /\ InFlight(w) = 0
            /\ \A t \in TaskIds : Exists(t) =>
                  ~(Row(t).state = "running" /\ Row(t).worker_id = Some(w)))

\* C24 witness: run() has returned after a shutdown that was requested
\* with an execution in flight, whose outcome is written, while a due
\* pending row is left unclaimed.
StoppedAfterInFlight ==
    \E w \in Workers : \E t, u \in TaskIds :
        /\ wk[w].pc = "stopped" /\ wk[w].gathered > 0
        /\ Exists(t) /\ Row(t).state \in {"completed", "failed"}
        /\ Exists(u) /\ Row(u).state = "pending" /\ Row(u).scheduled_at <= now

\* C25 (as claimed): in every list that list_tasks() can return, a task of
\* higher priority comes before every task of lower priority.
ListingByPriority ==
    \A l \in list_tasks(NULL, NULL, default_limit) :
        \A i, j \in 1..Len(l) :
            Row(l[i]).priority > Row(l[j]).priority => i < j

\* C26 (as claimed): every row's state is one of pending, running,
\* completed, failed, whatever the workers and the dashboard have done.
StateDomain ==
    \A t \in TaskIds :
        Exists(t) => Row(t).state \in {"pending", "running", "completed", "failed"}

\* C27 (as claimed): absent worker crashes, the handler of a task is never
\* invoked more than max_retries + 1 times.
BoundedExecutions ==
    \A t \in TaskIds : Exists(t) => invocations[t] <= Row(t).max_retries + 1

\* C28: at most one observed completion per claim.  Every change of an
\* existing row is either a claim, which starts one execution of it, or
\* the outcome write of an execution, which ends that execution and leaves
\* none of the row; a row that has an outcome changes only by a claim; and
\* the return of a handler that was abandoned at its timeout changes no row.
OneOutcomePerClaim ==
    [][ /\ \A t \in TaskIds : (Exists(t) /\ rows'[t] # rows[t]) =>
              IF Row(t).state = "running"
              THEN /\ Val(rows'[t]).state \in {"completed", "failed"}
                   /\ HolderCount(t)' = HolderCount(t) - 1
                   /\ HolderCount(t)' = 0
              ELSE /\ Val(rows'[t]).state = "running"
                   /\ HolderCount(t)' = HolderCount(t) + 1
        /\ (\E w \in Workers : executor'[w] # executor[w]
                                /\ executor'[w] \subseteq executor[w])
              => rows' = rows ]_vars

\* C28 witness: the handler of a row that is failed with a timeout error
\* has returned in its thread after the timeout was recorded.
LateReturnIgnored ==
    \E t \in TaskIds :
        /\ Exists(t) /\ Row(t).state = "failed"
        /\ Row(t).error = Some("TaskTimeoutError")
        /\ \A w \in Workers : executor[w] = {}

\* C29 (as claimed): whenever a row is written as completed or failed, it
\* was in state running before the write and named as its worker the one
\* worker whose execution of it ends with the write, and that worker had
\* exactly one execution of it in flight.
OutcomeWriteUnderLease ==
    [][\A t \in TaskIds :
          ( /\ Exists(t) /\ rows'[t] # rows[t]
            /\ Val(rows'[t]).state \in {"completed", "failed"} )
          => /\ Row(t).state = "running"
             /\ \E w \in Workers :
                   /\ Row(t).worker_id = Some(w)
                   /\ running_tasks[w][t] = 1
                   /\ running_tasks'[w][t] = 0
                   /\ \A v \in Workers \ {w} :
                         running_tasks'[v] = running_tasks[v]]_vars

\* C30 (as claimed): completed_at is set only on rows that are completed,
\* or failed with retries exhausted; no pending or running row and no
\* failed row that waits for a retry has it.
CompletedAtOnlyTerminal ==
    \A t \in TaskIds :
        (Exists(t) /\ Row(t).completed_at # NULL) =>
            \/ Row(t).state = "completed"
            \/ Row(t).state = "failed" /\ Row(t).retry_count >= Row(t).max_retries
\* C31: worker concurrency cap.  A worker never has more executions in
\* flight than its concurrency; it opens a claim transaction only while it
\* has fewer; each claim adds one execution; and no execution of the
\* worker ends while its loop is in a poll round, so that a round that
\* starts with k in flight makes at most concurrency - k claims.
ConcurrencyCap ==
    /\ [](\A w \in Workers : InFlight(w) <= concurrency[w])
    /\ [][\A w \in Workers :
            /\ (wk[w].pc \in {"sleep", "claim"} /\ wk'[w].pc \in {"locked", "waiting"})
                  => InFlight(w) < concurrency[w]
            /\ \A t \in TaskIds : running_tasks'[w][t] > running_tasks[w][t] =>
                  /\ wk[w].pc = "locked" /\ wk[w].target = t
                  /\ running_tasks'[w] = [running_tasks[w] EXCEPT ![t] = @ + 1]
            /\ (wk[w].pc \in {"claim", "locked", "waiting"} /\ alive(w)')
                  => \A t \in TaskIds : running_tasks'[w][t] >= running_tasks[w][t]]_vars

\* C31 witness: a worker with as many executions in flight as its
\* concurrency is back in its poll sleep while a row is due and claimable.
AtCapWithWorkLeft ==
    \E w \in Workers : \E t \in TaskIds :
        /\ wk[w].pc = "sleep"
        /\ InFlight(w) = concurrency[w]
        /\ Exists(t) /\ ClaimWhere(Row(t), now)

\* C32: retry_count accounting.  A write that leaves a row failed adds one
\* to its retry_count if that was below max_retries and leaves it as it
\* was otherwise; every other change of a row (a claim, a completion)
\* leaves retry_count as it was; so retry_count never decreases.
RetryCountAccounting ==
    [][\A t \in TaskIds : Exists(t) =>
          /\ rows'[t] # NULL
          /\ Val(rows'[t]).retry_count >= Row(t).retry_count
          /\ rows'[t] # rows[t] =>
                Val(rows'[t]).retry_count =
                    IF /\ Val(rows'[t]).state = "failed"
                       /\ Row(t).retry_count < Row(t).max_retries
                    THEN Row(t).retry_count + 1
                    ELSE Row(t).retry_count]_vars

\* C32 witness: a row of always_fails has failed a first time (retry_count
\* 0 to 1), was claimed again and has failed with its retries exhausted,
\* while another row was completed at its first attempt.
CountedOnceThenExhausted ==
    \E t, u \in TaskIds :
        /\ Exists(t) /\ Row(t).name = "always_fails"
        /\ Row(t).state = "failed" /\ Row(t).retry_count = 1
        /\ Row(t).completed_at # NULL
        /\ Exists(u) /\ Row(u).state = "completed" /\ Row(u).retry_count = 0

\* the write of a failed attempt on a row, spelt out: a retry with backoff
\* while retry_count < max_retries, the final failure otherwise; the lease
\* is given back and nothing else changes
FailureWritten(old, new, error) ==
    /\ new.state = "failed"
    /\ new.error = Some(error)
    /\ new.worker_id = NULL /\ new.locked_until = NULL
    /\ IF old.retry_count < old.max_retries
       THEN /\ new.retry_count = old.retry_count + 1
            /\ new.next_retry_at = Some(now + base_retry_delay_seconds
                    * Pow(retry_backoff_multiplier, old.retry_count))
            /\ new.completed_at = old.completed_at
       ELSE /\ new.retry_count = old.retry_count
            /\ new.next_retry_at = old.next_retry_at
            /\ new.completed_at = Some(now)
    /\ \A f \in DOMAIN old \ {"state", "error", "worker_id", "locked_until",
                                "retry_count", "next_retry_at", "completed_at"} :
            new[f] = old[f]

\* C33: missing handler at the worker.  Every attempt on a row whose name
\* the worker has not registered ends with the write of a failed attempt
\* with error TaskExecutionError: a retry while retry_count < max_retries,
\* the final failure otherwise.  It is the write that ends every attempt on
\* a row of always_fails, whose handler raises, but for the error.
MissingHandlerFails ==
    [][\A t \in TaskIds :
          (Exists(t) /\ rows'[t] # rows[t] /\ Row(t).state = "running") =>
             /\ Row(t).name \notin worker_task_registry =>
                   FailureWritten(Row(t), Val(rows'[t]), "TaskExecutionError")
             /\ Row(t).name = "always_fails" =>
                   FailureWritten(Row(t), Val(rows'[t]), "RuntimeError")]_vars

\* C33 witness: a row of a name the worker has not registered was failed
\* once with a retry, claimed again and failed with its retries exhausted.
MissingHandlerExhausted ==
    \E t \in TaskIds :
        /\ Exists(t) /\ Row(t).name \notin worker_task_registry
        /\ Row(t).state = "failed" /\ Row(t).error = Some("TaskExecutionError")
        /\ Row(t).retry_count = 1 /\ Row(t).max_retries = 1
        /\ Row(t).completed_at # NULL

\* C34: execution errors are contained.  An attempt that does not complete
\* its row (the handler raised, ran into its timeout or is not registered)
\* leaves the row failed with its error recorded, ends one execution and
\* leaves every worker's loop where it was; no worker's loop ever ends; and
\* a worker in its poll sleep with an execution to spare can open a claim
\* whenever a row is claimable.
ErrorsContained ==
    /\ [][\A t \in TaskIds :
            ( /\ Exists(t) /\ Row(t).state = "running" /\ rows'[t] # rows[t]
              /\ Val(rows'[t]).state # "completed" )
            => /\ Val(rows'[t]).state = "failed"
               /\ Val(rows'[t]).error \in
                     {Some("RuntimeError"), Some("TaskTimeoutError"),
                      Some("TaskExecutionError")}
               /\ wk' = wk
               /\ \E w \in Workers :
                     running_tasks' = [running_tasks EXCEPT ![w][t] = @ - 1]]_vars
    /\ [](\A w \in Workers :
            /\ wk[w].pc \notin {"dead", "stopping", "stopped"}
            /\ ( /\ wk[w].pc = "sleep" /\ InFlight(w) < concurrency[w]
                 /\ \E t \in TaskIds : Exists(t) /\ ClaimWhere(Row(t), now) )
               => ENABLED PollRound(w))

\* C34 witness: after an attempt of the worker has ended in a timeout that
\* is recorded on its row, the worker has claimed a row that was submitted
\* later and is executing it.
ClaimedAfterFailure ==
    \E t, u \in TaskIds :
        /\ Exists(t) /\ Row(t).state = "failed"
        /\ Row(t).error = Some("TaskTimeoutError") /\ Row(t).completed_at # NULL
        /\ Exists(u) /\ Row(u).created_at > Val(Row(t).completed_at)
        /\ Row(u).state = "running" /\ running_tasks[Poller][u] = 1

\* C35 (as claimed): a claim attempt that ends with a database error starts
\* no execution, leaves every row as it was and leaves the worker in its
\* poll sleep.
ClaimErrorRollsBack ==
    [][(call' # call /\ call' # NULL /\ "claim" \in DOMAIN Val(call')) =>
          /\ running_tasks' = running_tasks
          /\ wk'[Val(call').claim].pc = "sleep"
          /\ rows' = rows]_vars

\* C36: backoff formula.  A write that raises a row's retry_count raises
\* it by one, to n >= 1, and records as retry time the time of the write
\* plus base_retry_delay_seconds * retry_backoff_multiplier^(n-1), which
\* for the default configuration is 5, 10 and 20 seconds for n = 1, 2, 3.
BackoffFormula ==
    [][\A t \in TaskIds :
          (Exists(t) /\ Val(rows'[t]).retry_count # Row(t).retry_count) =>
             LET n == Val(rows'[t]).retry_count
             IN /\ n = Row(t).retry_count + 1
                /\ n >= 1
                /\ Val(rows'[t]).next_retry_at = Some(now
                        + base_retry_delay_seconds * Pow(retry_backoff_multiplier, n - 1))
                /\ n <= Len(DefaultDelays) =>
                        Val(rows'[t]).next_retry_at = Some(now + DefaultDelays[n])]_vars

\* C36 witness: a third failure has just been written with a retry time
\* 20 seconds ahead, on a row whose earlier failures were written before.
ThirdRetryIn20 ==
    \E t \in TaskIds :
        /\ Exists(t) /\ Row(t).state = "failed" /\ Row(t).retry_count = 3
        /\ Row(t).next_retry_at = Some(now + 20)
        /\ Row(t).created_at < now

\* C37: successful completion write.  The step in which a handler returns
\* v leaves its row as it was except for state = completed, result =
\* {"value": v} if v is not None (for the empty string too) and null if it
\* is, completed_at = the time of the write, and worker_id and locked_until
\* null; no other row changes.
CompletionWrite ==
    [][\A w \in Workers, t \in TaskIds :
          /\ execute_task(w, t, "return_value") =>
                rows' = [rows EXCEPT ![t] = Some(
                    [Row(t) EXCEPT !.state = "completed",
                                   !.result = Some([value |-> "done"]),
                                   !.completed_at = Some(now),
                                   !.worker_id = NULL,
                                   !.locked_until = NULL])]
          /\ execute_task(w, t, "return_empty") =>
                rows' = [rows EXCEPT ![t] = Some(
                    [Row(t) EXCEPT !.state = "completed",
                                   !.result = Some([value |-> ""]),
                                   !.completed_at = Some(now),
                                   !.worker_id = NULL,
                                   !.locked_until = NULL])]
          /\ execute_task(w, t, "return_none") =>
                rows' = [rows EXCEPT ![t] = Some(
                    [Row(t) EXCEPT !.state = "completed",
                                   !.result = NULL,
                                   !.completed_at = Some(now),
                                   !.worker_id = NULL,
                                   !.locked_until = NULL])]]_vars

\* C37 witness: one row is completed with the empty string wrapped as its
\* result, another, completed later, with no result.
EmptyAndNoneCompleted ==
    \E t, u \in TaskIds :
        /\ Exists(t) /\ Row(t).state = "completed"
        /\ Row(t).result = Some([value |-> ""])
        /\ Exists(u) /\ Row(u).state = "completed" /\ Row(u).result = NULL
        /\ Val(Row(u).completed_at) > Val(Row(t).completed_at)
        /\ Row(t).worker_id = NULL /\ Row(t).locked_until = NULL

\* the columns no operation of a worker assigns
Immutable ==
    {"id", "name", "args", "kwargs", "priority", "max_retries", "timeout_seconds",
     "tags", "created_at"}

\* C38: frame of the worker's operations.  No step removes a row or
\* changes a row's id, name, args, kwargs, priority, max_retries,
\* timeout_seconds, tags or created_at; a step changes at most one row; and
\* an existing row changes only as the target of a claim that commits,
\* which starts an execution of it, or by the outcome write that ends an
\* execution of it, so that a claim that finds no row changes nothing.
WorkerFrame ==
    [][ /\ Cardinality({t \in TaskIds : rows'[t] # rows[t]}) <= 1
        /\ \A t \in TaskIds : Exists(t) =>
              /\ rows'[t] # NULL
              /\ \A f \in Immutable : Val(rows'[t])[f] = Row(t)[f]
              /\ rows'[t] # rows[t] =>
                    \/ \E w \in Workers :
                          /\ wk[w].pc = "locked" /\ wk[w].target = t
                          /\ running_tasks'[w][t] = running_tasks[w][t] + 1
                    \/ \E w \in Workers :
                          running_tasks'[w][t] = running_tasks[w][t] - 1
        /\ (\E w \in Workers : wk'[w] # wk[w] /\ wk[w].pc # "locked")
              => rows' = rows ]_vars

\* C38 witness: a row with arguments has been claimed and completed and a
\* row with a timeout has been claimed and failed, both with the arguments
\* and options they were submitted with.
ClaimedAndWrittenIntact ==
    \E t, u \in TaskIds :
        /\ Exists(t) /\ Row(t).name = "add" /\ Row(t).state = "completed"
        /\ Row(t).kwargs = {<<"a", IntV(5)>>, <<"b", IntV(3)>>}
        /\ Exists(u) /\ Row(u).name = "slow_task" /\ Row(u).state = "failed"
        /\ Row(u).timeout_seconds = Some(1) /\ Row(u).started_at # NULL

\* C39 (as claimed): a row is set to cancelled only from pending; a row
\* that is cancelled is never changed again; and no worker holds an
\* execution of a cancelled row or starts one.
CancelVersusClaim ==
    /\ [][\A t \in TaskIds : Exists(t) =>
            /\ (Val(rows'[t]).state = "cancelled" /\ Row(t).state # "cancelled")
                  => Row(t).state = "pending"
            /\ Row(t).state = "cancelled" =>
                  /\ rows'[t] = rows[t]
                  /\ \A w \in Workers :
                        running_tasks'[w][t] <= running_tasks[w][t]]_vars
    /\ [](\A t \in TaskIds :
            (Exists(t) /\ Row(t).state = "cancelled") => HolderCount(t) = 0)
====
